---- MODULE Spec2Model ----
(***************************************************************************)
(* A model of parts of noclip.website:                                     *)
(*   - ArrayBufferSlice (src/src/ArrayBufferSlice.ts): SpecSlice           *)
(*   - the Jenkins hash of the HashMap module (src/unnamed/part_002):      *)
(*     SpecHash                                                            *)
(*   - render() of the Twilight Princess and Sunshine renderers:           *)
(*     SpecRender                                                          *)
(*   - readSceneBin and unpack (src/src/j3d/sms_scenes.ts): SpecScene,     *)
(*     SpecUnpack                                                          *)
(*   - createRoomScenes (src/src/j3d/ztp_scenes.ts) and the frames drawn   *)
(*     after it: SpecRoom                                                  *)
(*   - BMDObjectRenderer (src/src/j3d/ztp_actors.ts, sms_actors.ts):       *)
(*     SpecActors                                                          *)
(* Each specification moves its own variables and leaves the others alone. *)
(***************************************************************************)
EXTENDS Integers, Sequences, FiniteSets

VARIABLES heap, cur, last, systemEndianness, hashInput, hashOutput,
          renderer, passMask, pc, viewerInput, log, renderInstManager,
          viewRenderer, opaquePassRenderer, lastPassRenderer, returned,
          opaqueSceneTexture, fbtex,
          sceneBin, callStack, sceneBinObj,
          unpackInput, unpackOutput,
          rarc, modelInstances,
          actorClass, objVisible, parentJointMatrix, childObjects, miVisible,
          prepared

sliceVars == <<heap, cur, last, systemEndianness>>
hashVars == <<hashInput, hashOutput>>
renderVars == <<renderer, passMask, pc, viewerInput, log, renderInstManager,
                viewRenderer, opaquePassRenderer, lastPassRenderer, returned,
                opaqueSceneTexture, fbtex>>
sceneVars == <<sceneBin, callStack, sceneBinObj>>
unpackVars == <<unpackInput, unpackOutput>>
roomVars == <<rarc, modelInstances>>
actorsVars == <<actorClass, objVisible, parentJointMatrix, childObjects,
                miVisible, prepared>>
vars == <<sliceVars, hashVars, renderVars, sceneVars, unpackVars, roomVars,
          actorsVars>>

\* What the steps of one part leave alone: the other parts.
notSlice ==
    <<hashVars, renderVars, sceneVars, unpackVars, roomVars, actorsVars>>
notHash ==
    <<sliceVars, renderVars, sceneVars, unpackVars, roomVars, actorsVars>>
notRender ==
    <<sliceVars, hashVars, sceneVars, unpackVars, roomVars, actorsVars>>
notScene ==
    <<sliceVars, hashVars, renderVars, unpackVars, roomVars, actorsVars>>
notUnpack ==
    <<sliceVars, hashVars, renderVars, sceneVars, roomVars, actorsVars>>
notRoom ==
    <<sliceVars, hashVars, renderVars, sceneVars, unpackVars, actorsVars>>
notActors ==
    <<sliceVars, hashVars, renderVars, sceneVars, unpackVars, roomVars>>

(***************************************************************************)
(* Bounds.                                                                 *)
(***************************************************************************)
\* Largest length of an ArrayBuffer a caller wraps in a slice.
BufLen == 4
\* Largest integer passed as an offset, an end, a length or a count.
MaxArg == 2
\* Largest length of a hashed key.
MaxKeyLen == 2
\* Number of model instances of a scene.
NumInstances == 2
\* Largest viewport width; the viewport changes between frames.
MaxViewport == 2
\* Number of times the opaque scene texture may be created anew.
MaxTextures == 2
\* Largest number of object records of a scene file.
MaxRecords == 3
\* Largest child count a group record gives.
MaxChildren == 2
\* Largest length of a signature of unpack.
MaxSigLen == 2
\* Largest length of a buffer unpack reads.
MaxBytes == 4
\* Number of object renderers of a scene.
NumObjects == 3

(***************************************************************************)
(* Values.                                                                 *)
(***************************************************************************)
\* An optional argument is <<>> (omitted, undefined) or <<v>>.
Opt(S) == {<<>>} \cup {<<v>> : v \in S}
\* A default parameter value (x: number = d).
OrDefault(o, d) == IF o = <<>> THEN d ELSE o[1]

Max(a, b) == IF a >= b THEN a ELSE b
Min(a, b) == IF a <= b THEN a ELSE b

LITTLE_ENDIAN == "LITTLE_ENDIAN"
BIG_ENDIAN == "BIG_ENDIAN"
Endianness == {LITTLE_ENDIAN, BIG_ENDIAN}

\* The bytes of an ArrayBuffer of length n a caller starts from: all
\* distinct, so that a swap or a shifted copy is visible.
FreshBuffer(n) == [i \in 1..n |-> i]

\* An ArrayBufferSlice object (also a DataView, a typed array or, with
\* byteOffset 0 and the whole length, an ArrayBuffer): the id of its
\* ArrayBuffer in the heap, and its byte range.
Slice(buf, byteOffset, byteLength) ==
    [buf |-> buf, byteOffset |-> byteOffset, byteLength |-> byteLength]
NoValue == Slice(0, 0, 0)

\* What a call does: it returns a value or it throws, and it leaves a heap h
\* (a sequence of ArrayBuffers, each a sequence of bytes; an ArrayBuffer
\* allocated by the call is appended).
Returned(h, v) == [status |-> "ok", value |-> v, heap |-> h]
Threw(h, what) == [status |-> what, value |-> NoValue, heap |-> h]
AssertFailed(h) == Threw(h, "assert")
RangeError(h) == Threw(h, "RangeError")

\* arrayBuffer.byteLength
BufferByteLength(h, buf) == Len(h[buf])

(***************************************************************************)
(* ArrayBufferSlice                                                        *)
(***************************************************************************)
\* A plausible slip: the constructor without its assertion.
constructor_NoAssert(h, buf, byteOffset, byteLength) ==
    Returned(h, Slice(buf, byteOffset, byteLength))

\* new ArrayBufferSlice(arrayBuffer, byteOffset, byteLength), arguments given.
constructor(h, buf, byteOffset, byteLength) ==
    IF byteOffset >= 0 /\ byteLength >= 0
          /\ (byteOffset + byteLength) <= BufferByteLength(h, buf)
    THEN Returned(h, Slice(buf, byteOffset, byteLength))
    ELSE AssertFailed(h)

\* new ArrayBufferSlice(arrayBuffer, byteOffset = 0,
\*                      byteLength = arrayBuffer.byteLength)
constructorOpt(h, buf, byteOffsetOpt, byteLengthOpt) ==
    constructor(h, buf, OrDefault(byteOffsetOpt, 0),
                OrDefault(byteLengthOpt, BufferByteLength(h, buf)))

\* A plausible slip: end taken as a length.
slice_EndAsLength(h, this, begin, endOpt) ==
    LET end == OrDefault(endOpt, 0)
        absBegin == this.byteOffset + begin
        byteLength == IF end # 0 THEN end ELSE this.byteLength - begin
    IN  IF ~(byteLength >= 0 /\ byteLength <= this.byteLength)
        THEN AssertFailed(h)
        ELSE constructor(h, this.buf, absBegin, byteLength)

\* slice(begin, end = 0)
slice(h, this, begin, endOpt) ==
    LET end == OrDefault(endOpt, 0)
        absBegin == this.byteOffset + begin
        absEnd == this.byteOffset + (IF end # 0 THEN end ELSE this.byteLength)
        byteLength == absEnd - absBegin
    IN  IF ~(byteLength >= 0 /\ byteLength <= this.byteLength)
        THEN AssertFailed(h)
        ELSE constructor(h, this.buf, absBegin, absEnd - absBegin)

\* A plausible slip: 0 treated as "omitted", as slice and copyToBuffer do.
subarray_ZeroIsOmitted(h, this, begin, byteLengthOpt) ==
    LET absBegin == this.byteOffset + begin
        given == OrDefault(byteLengthOpt, 0)
        byteLength == IF given = 0 THEN this.byteLength - begin ELSE given
    IN  IF ~(byteLength >= 0 /\ byteLength <= this.byteLength)
        THEN AssertFailed(h)
        ELSE constructor(h, this.buf, absBegin, byteLength)

\* subarray(begin, byteLength?)
subarray(h, this, begin, byteLengthOpt) ==
    LET absBegin == this.byteOffset + begin
        byteLength == IF byteLengthOpt = <<>>
                      THEN this.byteLength - begin
                      ELSE byteLengthOpt[1]
    IN  IF ~(byteLength >= 0 /\ byteLength <= this.byteLength)
        THEN AssertFailed(h)
        ELSE constructor(h, this.buf, absBegin, byteLength)

\* ArrayBuffer.prototype.slice(start, end) of the platform, saved as
\* ArrayBuffer_slice: negative indices count from the end, both are clamped
\* to the buffer, and the bytes first..final-1 are copied.
ArrayBuffer_slice(bytes, start, end) ==
    LET len == Len(bytes)
        first == IF start < 0 THEN Max(len + start, 0) ELSE Min(start, len)
        final == IF end < 0 THEN Max(len + end, 0) ELSE Min(end, len)
        newLen == Max(final - first, 0)
    IN  SubSeq(bytes, first + 1, first + newLen)

\* copyToBuffer(begin = 0, byteLength = 0): the value is the new ArrayBuffer.
copyToBuffer(h, this, beginOpt, byteLengthOpt) ==
    LET begin == OrDefault(beginOpt, 0)
        byteLength == OrDefault(byteLengthOpt, 0)
        start == this.byteOffset + begin
        end == IF byteLength # 0 THEN start + byteLength
                                 ELSE this.byteOffset + this.byteLength
        copy == ArrayBuffer_slice(h[this.buf], start, end)
    IN  Returned(Append(h, copy), Slice(Len(h) + 1, 0, Len(copy)))

\* new DataView(buffer, byteOffset, byteLength) of the platform: a view, or a
\* RangeError when the range is not inside the buffer.
DataView(h, buf, byteOffset, byteLength) ==
    IF byteOffset >= 0 /\ byteLength >= 0
          /\ byteOffset + byteLength <= BufferByteLength(h, buf)
    THEN Returned(h, Slice(buf, byteOffset, byteLength))
    ELSE RangeError(h)

\* createDataView(offs = 0, length?)
createDataView(h, this, offs, lengthOpt) ==
    IF offs = 0 /\ lengthOpt = <<>>
    THEN DataView(h, this.buf, this.byteOffset, this.byteLength)
    ELSE LET sub == subarray(h, this, offs, lengthOpt)
         IN  IF sub.status # "ok" THEN sub
             ELSE DataView(h, sub.value.buf, sub.value.byteOffset,
                           sub.value.byteLength)

\* The bytes a slice covers: what this.createTypedArray(Uint8Array) shows.
SliceBytes(h, this) ==
    SubSeq(h[this.buf], this.byteOffset + 1, this.byteOffset + this.byteLength)

\* The loop of bswap16: o[i+0] = a[i+1]; o[i+1] = a[i+0].
swap16(a) == [j \in 1..Len(a) |-> IF j % 2 = 1 THEN a[j + 1] ELSE a[j - 1]]

\* The loop of bswap32: o[i+0] = a[i+3]; ... o[i+3] = a[i+0].
swap32(a) ==
    [j \in 1..Len(a) |-> LET p == (j - 1) % 4 IN a[(j - 1 - p) + (3 - p) + 1]]

\* The heap h with the bytes of slice this overwritten by o.
WriteInPlace(h, this, o) ==
    [h EXCEPT ![this.buf] =
        [j \in 1..Len(h[this.buf]) |->
            IF j > this.byteOffset /\ j <= this.byteOffset + this.byteLength
            THEN o[j - this.byteOffset] ELSE h[this.buf][j]]]

\* A plausible slip: the swap done in place, o being a view of the receiver.
bswap16_InPlace(h, this) ==
    IF this.byteLength % 2 # 0 THEN AssertFailed(h)
    ELSE Returned(WriteInPlace(h, this, swap16(SliceBytes(h, this))), this)

\* bswap16(): the swapped bytes are written into a new Uint8Array, whose
\* buffer the returned slice covers whole.
bswap16(h, this) ==
    IF this.byteLength % 2 # 0 THEN AssertFailed(h)
    ELSE LET o == swap16(SliceBytes(h, this))
         IN  constructorOpt(Append(h, o), Len(h) + 1, <<>>, <<>>)

\* bswap32()
bswap32(h, this) ==
    IF this.byteLength % 4 # 0 THEN AssertFailed(h)
    ELSE LET o == swap32(SliceBytes(h, this))
         IN  constructorOpt(Append(h, o), Len(h) + 1, <<>>, <<>>)

\* bswap(componentSize)
bswap(h, this, componentSize) ==
    IF componentSize = 2 THEN bswap16(h, this)
    ELSE IF componentSize = 4 THEN bswap32(h, this)
    ELSE Threw(h, "Error")

\* convertFromEndianness(endianness, componentSize), on a system of
\* endianness sys (getSystemEndianness()).
convertFromEndianness(h, sys, this, endianness, componentSize) ==
    IF componentSize # 1 /\ endianness # sys
    THEN bswap(h, this, componentSize)
    ELSE Returned(h, this)

\* isAligned(n, m): (n & (m - 1)) === 0, m a power of two.
isAligned(n, m) == n % m = 0

\* new clazz(buffer, byteOffset, length?) of the platform's typed arrays.
TypedArray(h, buf, BYTES_PER_ELEMENT, byteOffset, lengthOpt) ==
    LET bufLen == BufferByteLength(h, buf)
    IN  IF byteOffset < 0 \/ byteOffset % BYTES_PER_ELEMENT # 0
        THEN RangeError(h)
        ELSE IF lengthOpt = <<>>
        THEN IF bufLen % BYTES_PER_ELEMENT # 0 \/ byteOffset > bufLen
             THEN RangeError(h)
             ELSE Returned(h, Slice(buf, byteOffset, bufLen - byteOffset))
        ELSE IF lengthOpt[1] < 0
                  \/ byteOffset + lengthOpt[1] * BYTES_PER_ELEMENT > bufLen
             THEN RangeError(h)
             ELSE Returned(h, Slice(buf, byteOffset,
                                    lengthOpt[1] * BYTES_PER_ELEMENT))

\* createTypedArray(clazz, offs = 0, count?, endianness = LITTLE_ENDIAN)
createTypedArray(h, sys, this, BYTES_PER_ELEMENT, offs, countOpt, endianness) ==
    LET begin == this.byteOffset + offs
        byteLength == IF countOpt # <<>> THEN BYTES_PER_ELEMENT * countOpt[1]
                                         ELSE this.byteLength - offs
        \* assert((count | 0) === count) on count = byteLength / BPE
        countIsInt == countOpt # <<>> \/ byteLength % BYTES_PER_ELEMENT = 0
        count == IF countOpt # <<>> THEN countOpt[1]
                                    ELSE byteLength \div BYTES_PER_ELEMENT
        componentSize == BYTES_PER_ELEMENT
        needsEndianSwap == componentSize > 1 /\ endianness # sys
    IN  IF ~countIsInt THEN AssertFailed(h)
        ELSE IF needsEndianSwap
        THEN LET sub == subarray(h, this, offs, <<byteLength>>)
             IN  IF sub.status # "ok" THEN sub
                 ELSE LET copy == bswap(h, sub.value, componentSize)
                      IN  IF copy.status # "ok" THEN copy
                          \* copy.createTypedArray(clazz): the endianness
                          \* defaults to LITTLE_ENDIAN again, so on a
                          \* big-endian system the call swaps again, without
                          \* end.
                          ELSE IF LITTLE_ENDIAN # sys
                          THEN Threw(copy.heap, "StackOverflow")
                          ELSE TypedArray(copy.heap, copy.value.buf,
                                          BYTES_PER_ELEMENT,
                                          copy.value.byteOffset,
                                          <<copy.value.byteLength
                                              \div BYTES_PER_ELEMENT>>)
        ELSE IF isAligned(begin, componentSize)
        THEN TypedArray(h, this.buf, BYTES_PER_ELEMENT, begin, <<count>>)
        ELSE LET copy == copyToBuffer(h, this, <<offs>>, <<byteLength>>)
             IN  TypedArray(copy.heap, copy.value.buf, BYTES_PER_ELEMENT, 0,
                            <<>>)

(***************************************************************************)
(* The callers of ArrayBufferSlice: one action per public method. cur is   *)
(* the slice the caller holds and heap the ArrayBuffer it is built on      *)
(* (heap[1]). A call that returns a slice of that buffer makes it the next *)
(* receiver, so chains of calls are explored. A new ArrayBuffer a call     *)
(* allocates is handed over in the call's value: last, the record of the   *)
(* call, holds the heap as the call found it and as it left it. A swapped  *)
(* copy is the whole of a new buffer, so the calls on it are the calls on  *)
(* a buffer of that length wrapped by Construct.                           *)
(***************************************************************************)
\* The integers passed as offsets, ends, lengths and counts.
ArgInts == -1..MaxArg
ComponentSizes == {1, 2, 4}

Call(op, this, a, b, c, r) ==
    [op |-> op, this |-> this, a |-> a, b |-> b, c |-> c,
     status |-> r.status, value |-> r.value,
     heapBefore |-> heap, heapAfter |-> r.heap]

\* The caller keeps the buffer its slice is built on.
Keep(r) == heap' = SubSeq(r.heap, 1, 1)

\* The receiver after a call that returns a slice: the returned slice when
\* it is a slice of the buffer held.
Chain(r) ==
    cur' = IF r.status = "ok" /\ r.value.buf = cur.buf THEN r.value ELSE cur

\* new ArrayBufferSlice(buffer) on an ArrayBuffer of n bytes the caller got
\* from elsewhere: an empty one, or one of BufLen bytes (the slices of a
\* shorter buffer are, byte for byte, slices of the head of this one).
Wrap ==
    \E n \in {0, BufLen} :
        LET h == <<FreshBuffer(n)>>
            r == constructorOpt(h, 1, <<>>, <<>>)
        IN  /\ last' = [Call("constructor", Slice(1, 0, n), <<>>, <<>>, <<>>, r)
                           EXCEPT !.heapBefore = h]
            /\ heap' = h
            /\ Chain(r)
            /\ UNCHANGED <<systemEndianness, notSlice>>

\* new ArrayBufferSlice(buffer, byteOffset?, byteLength?) on the ArrayBuffer
\* held.
Construct ==
    \E o \in Opt(ArgInts), l \in Opt(ArgInts) :
        LET r == constructorOpt(heap, 1, o, l)
        IN  /\ last' = Call("constructor", Slice(1, 0, Len(heap[1])), o, l,
                            <<>>, r)
            /\ Keep(r)
            /\ Chain(r)
            /\ UNCHANGED <<systemEndianness, notSlice>>

DoSlice ==
    \E begin \in ArgInts, end \in Opt(ArgInts) :
        LET r == slice(heap, cur, begin, end)
        IN  /\ last' = Call("slice", cur, <<begin>>, end, <<>>, r)
            /\ Keep(r)
            /\ Chain(r)
            /\ UNCHANGED <<systemEndianness, notSlice>>

DoSubarray ==
    \E begin \in ArgInts, byteLength \in Opt(ArgInts) :
        LET r == subarray(heap, cur, begin, byteLength)
        IN  /\ last' = Call("subarray", cur, <<begin>>, byteLength, <<>>, r)
            /\ Keep(r)
            /\ Chain(r)
            /\ UNCHANGED <<systemEndianness, notSlice>>

DoCopyToBuffer ==
    \E begin \in Opt(ArgInts), byteLength \in Opt(ArgInts) :
        LET r == copyToBuffer(heap, cur, begin, byteLength)
        IN  /\ last' = Call("copyToBuffer", cur, begin, byteLength, <<>>, r)
            /\ Keep(r)
            /\ UNCHANGED <<cur, systemEndianness, notSlice>>

DoCreateDataView ==
    \E offs \in ArgInts, length \in Opt(ArgInts) :
        LET r == createDataView(heap, cur, offs, length)
        IN  /\ last' = Call("createDataView", cur, <<offs>>, length, <<>>, r)
            /\ Keep(r)
            /\ UNCHANGED <<cur, systemEndianness, notSlice>>

DoConvertFromEndianness ==
    \E endianness \in Endianness, componentSize \in ComponentSizes :
        LET r == convertFromEndianness(heap, systemEndianness, cur,
                                       endianness, componentSize)
        IN  /\ last' = Call("convertFromEndianness", cur, <<>>, <<>>,
                            <<endianness, componentSize>>, r)
            /\ Keep(r)
            /\ Chain(r)
            /\ UNCHANGED <<systemEndianness, notSlice>>

DoCreateTypedArray ==
    \E bpe \in ComponentSizes, offs \in 0..MaxArg, count \in Opt(0..MaxArg),
       endianness \in Endianness :
        LET r == createTypedArray(heap, systemEndianness, cur, bpe, offs,
                                  count, endianness)
        IN  /\ last' = Call("createTypedArray", cur, <<offs>>, count,
                            <<endianness, bpe>>, r)
            /\ Keep(r)
            /\ UNCHANGED <<cur, systemEndianness, notSlice>>

NoCall ==
    [op |-> "none", this |-> NoValue, a |-> <<>>, b |-> <<>>, c |-> <<>>,
     status |-> "ok", value |-> NoValue,
     heapBefore |-> <<>>, heapAfter |-> <<>>]

SliceInit ==
    /\ heap = <<FreshBuffer(BufLen)>>
    /\ cur = Slice(1, 0, BufLen)
    /\ last = NoCall
    /\ systemEndianness \in Endianness

SliceNext ==
    \/ Wrap
    \/ Construct
    \/ DoSlice
    \/ DoSubarray
    \/ DoCopyToBuffer
    \/ DoCreateDataView
    \/ DoConvertFromEndianness
    \/ DoCreateTypedArray


(***************************************************************************)
(* Claims about ArrayBufferSlice, checked under SpecSlice.                 *)
(***************************************************************************)
SliceReturned(op) == last.op = op /\ last.status = "ok"

\* Every byte of slice s is a byte of slice t.
Inside(s, t) ==
    /\ s.buf = t.buf
    /\ \A i \in s.byteOffset..(s.byteOffset + s.byteLength - 1) :
          i >= t.byteOffset /\ i < t.byteOffset + t.byteLength

\* byteOffset >= 0, byteLength >= 0, byteOffset + byteLength <= the length of
\* the ArrayBuffer.
ValidSlice(h, s) ==
    /\ s.buf \in 1..Len(h)
    /\ s.byteOffset >= 0
    /\ s.byteLength >= 0
    /\ s.byteOffset + s.byteLength <= Len(h[s.buf])

\* C4: slice(begin, end), when it returns, returns a slice of the same
\* ArrayBuffer (nothing is allocated or copied) with byteOffset =
\* this.byteOffset + begin and byteLength = end - begin; with end omitted or
\* 0 the result ends where the receiver ends (byteLength = this.byteLength -
\* begin).
C4_SliceBeginEnd ==
    SliceReturned("slice") =>
        LET begin == last.a[1]
        IN  /\ last.value.buf = last.this.buf
            /\ last.heapAfter = last.heapBefore
            /\ last.value.byteOffset = last.this.byteOffset + begin
            /\ last.value.byteLength =
                  IF last.b = <<>> \/ last.b = <<0>>
                  THEN last.this.byteLength - begin
                  ELSE last.b[1] - begin

\* slice(begin, end) returned with begin > 0 and an explicit end that is not
\* the receiver's end.
C4_Witness ==
    /\ SliceReturned("slice")
    /\ last.a[1] > 0
    /\ last.b # <<>> /\ last.b # <<0>>
    /\ last.b[1] # last.this.byteLength
    /\ last.value.byteLength > 0

C6_SubSection ==
    (SliceReturned("slice") \/ SliceReturned("subarray")) =>
        Inside(last.value, last.this)

\* C7: every ArrayBufferSlice that exists (the slice held, and the slice a
\* constructor, slice, subarray or convertFromEndianness call returned)
\* satisfies byteOffset >= 0, byteLength >= 0 and byteOffset + byteLength <=
\* arrayBuffer.byteLength; a call that did not fail its assertion returned
\* such a slice.
C7_SliceInvariant ==
    /\ ValidSlice(heap, cur)
    /\ (last.op \in {"constructor", "slice", "subarray",
                     "convertFromEndianness"} /\ last.status = "ok")
          => ValidSlice(last.heapAfter, last.value)

\* subarray(begin, byteLength) passed its own assertion (0 <= byteLength <=
\* this.byteLength) and the constructor's assertion rejected the slice, which
\* would have ended after the ArrayBuffer.
C7_Witness ==
    /\ last.op = "subarray" /\ last.status = "assert"
    /\ last.b # <<>>
    /\ last.b[1] >= 0 /\ last.b[1] <= last.this.byteLength
    /\ last.this.byteOffset + last.a[1] + last.b[1] > Len(last.heapBefore[1])

\* C8: no call writes to an ArrayBuffer that existed before it: the bytes of
\* every such buffer are the same after the call, and the buffer held is
\* still as the caller wrapped it. Byte swapping writes into a new buffer.
C8_ReadOnly ==
    /\ heap = <<FreshBuffer(Len(heap[1]))>>
    /\ Len(last.heapAfter) >= Len(last.heapBefore)
    /\ \A b \in 1..Len(last.heapBefore) :
          last.heapAfter[b] = last.heapBefore[b]

\* convertFromEndianness swapped the bytes of a slice into a new buffer.
C8_Witness ==
    /\ SliceReturned("convertFromEndianness")
    /\ Len(last.heapAfter) = Len(last.heapBefore) + 1
    /\ last.this.byteLength >= 2
    /\ last.heapAfter[last.value.buf] # SliceBytes(last.heapBefore, last.this)
    /\ last.heapAfter[last.value.buf]
          = swap16(SliceBytes(last.heapBefore, last.this))

\* C9: copyToBuffer(begin, byteLength) returns a new ArrayBuffer holding
\* exactly the byteLength bytes of the slice from begin on; begin omitted is
\* the start of the slice, byteLength omitted is up to the end of the slice.
\* (Stated for the ranges that lie inside the slice.)
C9_CopyExact ==
    SliceReturned("copyToBuffer") =>
        LET begin == OrDefault(last.a, 0)
            byteLength == IF last.b = <<>> THEN last.this.byteLength - begin
                                           ELSE last.b[1]
        IN  (begin >= 0 /\ byteLength >= 0
                /\ begin + byteLength <= last.this.byteLength)
            => /\ last.value.buf \notin 1..Len(last.heapBefore)
               /\ last.heapAfter[last.value.buf]
                     = SubSeq(SliceBytes(last.heapBefore, last.this),
                              begin + 1, begin + byteLength)

(***************************************************************************)
(* hashCodeNumbers / hashCodeString (src/unnamed/part_002).                *)
(*                                                                         *)
(* A JavaScript number holding an integer n is the record [hi, lo] with    *)
(* n = hi * 2^16 + lo and lo in 0..2^16-1 (hi is negative for a negative   *)
(* n): the values of the hash leave the range of 32-bit integers, which    *)
(* += does not wrap, while <<, >>> and ^ first convert to 32 bits.         *)
(***************************************************************************)
W == 2^16
Pow2(n) == 2^n

Number(n) == [hi |-> n \div W, lo |-> n % W]

\* a + b on numbers
Plus(a, b) ==
    LET lo == a.lo + b.lo
    IN  [hi |-> a.hi + b.hi + lo \div W, lo |-> lo % W]

\* ToUint32 and ToInt32 of ECMAScript: the number modulo 2^32, as an
\* unsigned and as a signed 32-bit integer.
ToUint32(a) == [hi |-> a.hi % W, lo |-> a.lo]
ToInt32(a) ==
    LET u == ToUint32(a)
    IN  IF u.hi >= W \div 2 THEN [hi |-> u.hi - W, lo |-> u.lo] ELSE u

\* a << n: the low 32 bits shifted left, read as a signed 32-bit integer.
ShiftLeft(a, n) ==
    LET u == ToUint32(a)
        t == u.lo * Pow2(n)
    IN  ToInt32([hi |-> ((u.hi % Pow2(16 - n)) * Pow2(n) + t \div W) % W,
                 lo |-> t % W])

\* a >>> n: the low 32 bits shifted right, zeros shifted in.
ShiftRightUnsigned(a, n) ==
    LET u == ToUint32(a)
    IN  [hi |-> u.hi \div Pow2(n),
         lo |-> (u.hi % Pow2(n)) * Pow2(16 - n) + u.lo \div Pow2(n)]

RECURSIVE XorBits(_, _, _)
XorBits(x, y, n) ==
    IF n = 0 THEN 0
    ELSE (((x % 2) + (y % 2)) % 2) + 2 * XorBits(x \div 2, y \div 2, n - 1)

\* a ^ b: bitwise on the low 32 bits, read as a signed 32-bit integer.
Xor(a, b) ==
    LET u == ToUint32(a)
        v == ToUint32(b)
    IN  ToInt32([hi |-> XorBits(u.hi, v.hi, 16), lo |-> XorBits(u.lo, v.lo, 16)])

\* The body of the loop of hashCodeNumbers.
HashStep(hash, k) ==
    LET h1 == Plus(hash, Number(k))                  \* hash += key[i];
        h2 == Plus(h1, ShiftLeft(h1, 10))            \* hash += hash << 10;
        h3 == Plus(h2, ShiftRightUnsigned(h2, 6))    \* hash += hash >>> 6;
    IN  h3

RECURSIVE HashLoop(_, _, _)
HashLoop(hash, key, i) ==
    IF i > Len(key) THEN hash
    ELSE HashLoop(HashStep(hash, key[i]), key, i + 1)

\* hashCodeNumbers(key)
hashCodeNumbers(key) ==
    LET h0 == HashLoop(Number(0), key, 1)
        h1 == Plus(h0, ShiftLeft(h0, 3))             \* hash += hash << 3;
        h2 == Xor(h1, ShiftRightUnsigned(h1, 11))    \* hash ^= hash >>> 11;
        h3 == Plus(h2, ShiftLeft(h2, 15))            \* hash += hash << 15;
    IN  h3

\* A string is the sequence of its UTF-16 code units; key.charCodeAt(i).
charCodeAt(key, i) == key[i + 1]

\* The code units of the strings hashed here: "0", "A", "a", "~".
Chars == {48, 65, 97, 126}

\* hashCodeString(key)
hashCodeString(key) ==
    LET n == Len(key)
        numbers == [i \in 1..n |-> charCodeAt(key, i - 1)]
    IN  hashCodeNumbers(numbers)

\* The numbers hashed.
KeyNumbers == {0, 1, 64, 65, 255, 65535}

SeqsUpTo(S, n) == UNION {[1..m -> S] : m \in 0..n}

NoHash == [done |-> FALSE, hash |-> Number(0)]

HashInit ==
    /\ hashInput \in
          {[kind |-> "numbers", key |-> k] : k \in SeqsUpTo(KeyNumbers, MaxKeyLen)}
          \cup {[kind |-> "string", key |-> k] : k \in SeqsUpTo(Chars, MaxKeyLen)}
    /\ hashOutput = NoHash

CallHashCodeNumbers ==
    /\ hashInput.kind = "numbers"
    /\ ~hashOutput.done
    /\ hashOutput' = [done |-> TRUE, hash |-> hashCodeNumbers(hashInput.key)]
    /\ UNCHANGED <<hashInput, notHash>>

CallHashCodeString ==
    /\ hashInput.kind = "string"
    /\ ~hashOutput.done
    /\ hashOutput' = [done |-> TRUE, hash |-> hashCodeString(hashInput.key)]
    /\ UNCHANGED <<hashInput, notHash>>

HashNext == CallHashCodeNumbers \/ CallHashCodeString

(***************************************************************************)
(* The Jenkins one-at-a-time hash in 32-bit unsigned arithmetic, as        *)
(* published: the reference the hash is compared with.                     *)
(***************************************************************************)
Plus32(a, b) == ToUint32(Plus(a, b))
ShiftLeft32(a, n) == ToUint32(ShiftLeft(a, n))
Xor32(a, b) == ToUint32(Xor(a, b))

RECURSIVE OneAtATimeLoop(_, _, _)
OneAtATimeLoop(hash, key, i) ==
    IF i > Len(key) THEN hash
    ELSE LET h1 == Plus32(hash, Number(key[i]))
             h2 == Plus32(h1, ShiftLeft32(h1, 10))
             h3 == Xor32(h2, ShiftRightUnsigned(h2, 6))
         IN  OneAtATimeLoop(h3, key, i + 1)

OneAtATime(key) ==
    LET h0 == OneAtATimeLoop(Number(0), key, 1)
        h1 == Plus32(h0, ShiftLeft32(h0, 3))
        h2 == Xor32(h1, ShiftRightUnsigned(h1, 11))
        h3 == Plus32(h2, ShiftLeft32(h2, 15))
    IN  h3

\* The numbers of the key hashed: the character codes of a string.
KeyCodes == hashInput.key

\* C10: the hash computed is the Jenkins one-at-a-time hash of the key (of
\* the character codes, for a string), compared modulo 2^32.
C10_IsOneAtATime ==
    hashOutput.done => ToUint32(hashOutput.hash) = OneAtATime(KeyCodes)

(***************************************************************************)
(* render() of TwilightPrincessRenderer (src/src/j3d/ztp_scenes.ts, and    *)
(* its earlier version in src/unnamed/part_001) and of SunshineRenderer    *)
(* (src/src/j3d/sms_scenes.ts).                                            *)
(*                                                                         *)
(* render() runs to its end once called: pc is its position. log is the    *)
(* sequence of the calls it made on the device, the passes and the render  *)
(* instance list in the frame, in order. A pass is named by the order of   *)
(* its creation in the frame.                                              *)
(***************************************************************************)
ZTPPass == [SKYBOX |-> 2^0, OPAQUE |-> 2^1, INDIRECT |-> 2^2, TRANSPARENT |-> 2^3]
SMSPass == [SKYBOX |-> 2^0, OPAQUE |-> 2^1, INDIRECT |-> 2^2, TRANSPARENT |-> 2^3]

Instances == 1..NumInstances
\* The pass masks a model instance is given: one of the pass keys, or the 0
\* createRoomScenes starts from.
PassMasks == {0} \cup {ZTPPass[k] : k \in DOMAIN ZTPPass}

RECURSIVE BitAnd(_, _)
BitAnd(a, b) ==
    IF a = 0 \/ b = 0 THEN 0
    ELSE ((a % 2) * (b % 2)) + 2 * BitAnd(a \div 2, b \div 2)

\* The calls logged.
Event(op, pass, key, insts, tex) ==
    [op |-> op, pass |-> pass, key |-> key, insts |-> insts, tex |-> tex]
\* device.createHostAccessPass()
CreateHostAccessPass(p) == Event("createHostAccessPass", p, 0, {}, 0)
\* mainRenderTarget.createRenderPass(device, descriptor)
CreateRenderPass(p) == Event("createRenderPass", p, 0, {}, 0)
\* passRenderer.endPass(resolveColorTo): tex 0 is null.
EndPass(p, tex) == Event("endPass", p, 0, {}, tex)
\* device.submitPass(pass)
SubmitPass(p) == Event("submitPass", p, 0, {}, 0)
\* The render instances insts drawn on pass p, the filter being key.
Draw(p, key, insts) == Event("draw", p, key, insts, 0)

\* The name of the next pass created.
NextPass(l) ==
    1 + Cardinality({i \in DOMAIN l :
                        l[i].op \in {"createHostAccessPass", "createRenderPass"}})

\* GfxRenderInstManager: the render instances submitted in the frame (one per
\* visible model instance, its filterKey the passMask of the instance),
\* those flagged visible, and the filter key last set.
setVisibleByFilterKeyExact(m, filterKey) ==
    [m EXCEPT !.visible = {i \in m.insts : passMask[i] = filterKey},
              !.filterKey = filterKey]
hasAnyVisibleExact(m) == m.visible # {}
drawOnPassRenderer(m, p) == Draw(p, m.filterKey, m.visible)
resetRenderInsts(m) == [m EXCEPT !.insts = {}, !.visible = {}]

\* GfxRenderInstViewRenderer: vr is the set of visible render instances.
executeOnPass(vr, p, mask) ==
    Draw(p, mask, {i \in vr : BitAnd(passMask[i], mask) # 0})
hasAnyVisible(vr, mask) == \E i \in vr : BitAnd(passMask[i], mask) # 0

\* ColorTexture.setParameters(device, width, height): the texture is created
\* anew when the size is not the size it has.
setParameters(t, width) ==
    IF t.width = width THEN t
    ELSE [gfxTexture |-> t.gfxTexture + 1, width |-> width]

\* viewerInput: the viewport, and the model instances that are visible in
\* the frame.
ViewerInputs ==
    [viewportWidth : 1..MaxViewport, visible : SUBSET Instances]

\* The frames the bound on textures admits.
Admitted(vi) == setParameters(opaqueSceneTexture, vi.viewportWidth).gfxTexture <= MaxTextures

\* What every step of render() leaves alone.
RenderOnly == UNCHANGED <<notRender, renderer, passMask>>

(***************************************************************************)
(* TwilightPrincessRenderer.render, src/src/j3d/ztp_scenes.ts              *)
(***************************************************************************)
\* setIndirectTextureOverride(), the host access pass with prepareToRender,
\* and the two setParameters calls.
ZTP_Begin ==
    /\ renderer = "ztp" /\ pc = "idle"
    /\ \E vi \in ViewerInputs :
          /\ Admitted(vi)
          /\ viewerInput' = vi
          /\ fbtex' = opaqueSceneTexture.gfxTexture
          /\ log' = <<CreateHostAccessPass(1), SubmitPass(1)>>
          /\ renderInstManager' =
                [insts |-> renderInstManager.insts \cup vi.visible,
                 visible |-> renderInstManager.insts \cup vi.visible,
                 filterKey |-> 0]
          /\ opaqueSceneTexture' =
                setParameters(opaqueSceneTexture, vi.viewportWidth)
    /\ opaquePassRenderer' = 0 /\ lastPassRenderer' = 0 /\ returned' = 0
    /\ pc' = "skybox"
    /\ UNCHANGED viewRenderer
    /\ RenderOnly

\* A plausible slip: the skybox pass left open.
ZTP_Skybox_NoSubmit ==
    /\ renderer = "ztp" /\ pc = "skybox"
    /\ LET skyboxPassRenderer == NextPass(log)
           m == setVisibleByFilterKeyExact(renderInstManager, ZTPPass.SKYBOX)
       IN  /\ log' = log \o <<CreateRenderPass(skyboxPassRenderer),
                              drawOnPassRenderer(m, skyboxPassRenderer)>>
           /\ renderInstManager' = m
    /\ pc' = "opaque"
    /\ UNCHANGED <<viewerInput, viewRenderer, opaquePassRenderer,
                   lastPassRenderer, returned, opaqueSceneTexture, fbtex>>
    /\ RenderOnly

ZTP_Skybox ==
    /\ renderer = "ztp" /\ pc = "skybox"
    /\ LET skyboxPassRenderer == NextPass(log)
           m == setVisibleByFilterKeyExact(renderInstManager, ZTPPass.SKYBOX)
       IN  /\ log' = log \o <<CreateRenderPass(skyboxPassRenderer),
                              drawOnPassRenderer(m, skyboxPassRenderer),
                              EndPass(skyboxPassRenderer, 0),
                              SubmitPass(skyboxPassRenderer)>>
           /\ renderInstManager' = m
    /\ pc' = "opaque"
    /\ UNCHANGED <<viewerInput, viewRenderer, opaquePassRenderer,
                   lastPassRenderer, returned, opaqueSceneTexture, fbtex>>
    /\ RenderOnly

ZTP_Opaque ==
    /\ renderer = "ztp" /\ pc = "opaque"
    /\ LET p == NextPass(log)
           m == setVisibleByFilterKeyExact(renderInstManager, ZTPPass.OPAQUE)
       IN  /\ log' = log \o <<CreateRenderPass(p), drawOnPassRenderer(m, p)>>
           /\ renderInstManager' = m
           /\ opaquePassRenderer' = p
    /\ pc' = "indirect"
    /\ UNCHANGED <<viewerInput, viewRenderer, lastPassRenderer, returned,
                   opaqueSceneTexture, fbtex>>
    /\ RenderOnly

\* A plausible slip: the opaque pass left open when the indirect pass is made.
ZTP_Indirect_NoResolve ==
    /\ renderer = "ztp" /\ pc = "indirect"
    /\ LET m == setVisibleByFilterKeyExact(renderInstManager, ZTPPass.INDIRECT)
           indTexPassRenderer == NextPass(log)
       IN  /\ renderInstManager' = m
           /\ IF hasAnyVisibleExact(m)
              THEN /\ log' = log \o
                        <<CreateRenderPass(indTexPassRenderer),
                          drawOnPassRenderer(m, indTexPassRenderer)>>
                   /\ lastPassRenderer' = indTexPassRenderer
              ELSE /\ log' = log
                   /\ lastPassRenderer' = opaquePassRenderer
    /\ pc' = "transparent"
    /\ UNCHANGED <<viewerInput, viewRenderer, opaquePassRenderer, returned,
                   opaqueSceneTexture, fbtex>>
    /\ RenderOnly

ZTP_Indirect ==
    /\ renderer = "ztp" /\ pc = "indirect"
    /\ LET m == setVisibleByFilterKeyExact(renderInstManager, ZTPPass.INDIRECT)
           indTexPassRenderer == NextPass(log)
       IN  /\ renderInstManager' = m
           /\ IF hasAnyVisibleExact(m)
              THEN /\ log' = log \o
                        <<EndPass(opaquePassRenderer,
                                  opaqueSceneTexture.gfxTexture),
                          SubmitPass(opaquePassRenderer),
                          CreateRenderPass(indTexPassRenderer),
                          drawOnPassRenderer(m, indTexPassRenderer)>>
                   /\ lastPassRenderer' = indTexPassRenderer
              ELSE /\ log' = log
                   /\ lastPassRenderer' = opaquePassRenderer
    /\ pc' = "transparent"
    /\ UNCHANGED <<viewerInput, viewRenderer, opaquePassRenderer, returned,
                   opaqueSceneTexture, fbtex>>
    /\ RenderOnly

\* A plausible slip: the filter not set before the last draw.
ZTP_Transparent_NoFilter ==
    /\ renderer = "ztp" /\ pc = "transparent"
    /\ LET m == renderInstManager
       IN  /\ log' = log \o <<drawOnPassRenderer(m, lastPassRenderer)>>
           /\ renderInstManager' = resetRenderInsts(m)
    /\ returned' = lastPassRenderer
    /\ pc' = "idle"
    /\ UNCHANGED <<viewerInput, viewRenderer, opaquePassRenderer,
                   lastPassRenderer, opaqueSceneTexture, fbtex>>
    /\ RenderOnly

ZTP_Transparent ==
    /\ renderer = "ztp" /\ pc = "transparent"
    /\ LET m == setVisibleByFilterKeyExact(renderInstManager,
                                           ZTPPass.TRANSPARENT)
       IN  /\ log' = log \o <<drawOnPassRenderer(m, lastPassRenderer)>>
           /\ renderInstManager' = resetRenderInsts(m)
    /\ returned' = lastPassRenderer
    /\ pc' = "idle"
    /\ UNCHANGED <<viewerInput, viewRenderer, opaquePassRenderer,
                   lastPassRenderer, opaqueSceneTexture, fbtex>>
    /\ RenderOnly

(***************************************************************************)
(* render() on a GfxRenderInstViewRenderer: SunshineRenderer.render        *)
(* (src/src/j3d/sms_scenes.ts) and the earlier                             *)
(* TwilightPrincessRenderer.render (src/unnamed/part_001). The two differ  *)
(* in the texture overrides only; which is which.                          *)
(***************************************************************************)
\* The host access pass with prepareToRender, viewRenderer.prepareToRender
\* and the setParameters calls.
VR_Begin(which) ==
    /\ renderer = which /\ pc = "idle"
    /\ \E vi \in ViewerInputs :
          /\ Admitted(vi)
          /\ viewerInput' = vi
          /\ log' = <<CreateHostAccessPass(1), SubmitPass(1)>>
          /\ viewRenderer' = vi.visible
          /\ opaqueSceneTexture' =
                setParameters(opaqueSceneTexture, vi.viewportWidth)
    /\ opaquePassRenderer' = 0 /\ lastPassRenderer' = 0 /\ returned' = 0
    /\ pc' = "skybox"
    /\ UNCHANGED <<renderInstManager, fbtex>>
    /\ RenderOnly

VR_Skybox(which, Pass) ==
    /\ renderer = which /\ pc = "skybox"
    /\ LET skyboxPassRenderer == NextPass(log)
       IN  log' = log \o <<CreateRenderPass(skyboxPassRenderer),
                           executeOnPass(viewRenderer, skyboxPassRenderer,
                                         Pass.SKYBOX),
                           EndPass(skyboxPassRenderer, 0),
                           SubmitPass(skyboxPassRenderer)>>
    /\ pc' = "opaque"
    /\ UNCHANGED <<viewerInput, renderInstManager, viewRenderer,
                   opaquePassRenderer, lastPassRenderer, returned,
                   opaqueSceneTexture, fbtex>>
    /\ RenderOnly

VR_Opaque(which, Pass) ==
    /\ renderer = which /\ pc = "opaque"
    /\ LET p == NextPass(log)
       IN  /\ log' = log \o <<CreateRenderPass(p),
                              executeOnPass(viewRenderer, p, Pass.OPAQUE)>>
           /\ opaquePassRenderer' = p
    /\ pc' = "indirect"
    /\ UNCHANGED <<viewerInput, renderInstManager, viewRenderer,
                   lastPassRenderer, returned, opaqueSceneTexture, fbtex>>
    /\ RenderOnly

\* The texture override of the indirect sampler is set after the resolve.
VR_Indirect(which, Pass) ==
    /\ renderer = which /\ pc = "indirect"
    /\ LET indTexPassRenderer == NextPass(log)
       IN  IF hasAnyVisible(viewRenderer, Pass.INDIRECT)
           THEN /\ log' = log \o
                     <<EndPass(opaquePassRenderer,
                               opaqueSceneTexture.gfxTexture),
                       SubmitPass(opaquePassRenderer),
                       CreateRenderPass(indTexPassRenderer),
                       executeOnPass(viewRenderer, indTexPassRenderer,
                                     Pass.INDIRECT)>>
                /\ fbtex' = opaqueSceneTexture.gfxTexture
                /\ lastPassRenderer' = indTexPassRenderer
           ELSE /\ log' = log
                /\ fbtex' = fbtex
                /\ lastPassRenderer' = opaquePassRenderer
    /\ pc' = "transparent"
    /\ UNCHANGED <<viewerInput, renderInstManager, viewRenderer,
                   opaquePassRenderer, returned, opaqueSceneTexture>>
    /\ RenderOnly

VR_Transparent(which, Pass) ==
    /\ renderer = which /\ pc = "transparent"
    /\ log' = log \o <<executeOnPass(viewRenderer, lastPassRenderer,
                                     Pass.TRANSPARENT)>>
    /\ returned' = lastPassRenderer
    /\ pc' = "idle"
    /\ UNCHANGED <<viewerInput, renderInstManager, viewRenderer,
                   opaquePassRenderer, lastPassRenderer, opaqueSceneTexture,
                   fbtex>>
    /\ RenderOnly

SMS_Begin == VR_Begin("sms")
SMS_Skybox == VR_Skybox("sms", SMSPass)
SMS_Opaque == VR_Opaque("sms", SMSPass)
SMS_Indirect == VR_Indirect("sms", SMSPass)
SMS_Transparent == VR_Transparent("sms", SMSPass)

ZTP0_Begin == VR_Begin("ztp0")
ZTP0_Skybox == VR_Skybox("ztp0", ZTPPass)
ZTP0_Opaque == VR_Opaque("ztp0", ZTPPass)
ZTP0_Indirect == VR_Indirect("ztp0", ZTPPass)
ZTP0_Transparent == VR_Transparent("ztp0", ZTPPass)

RenderInit ==
    /\ renderer \in {"ztp", "ztp0", "sms"}
    /\ passMask \in [Instances -> PassMasks]
    /\ pc = "idle"
    /\ viewerInput = [viewportWidth |-> 0, visible |-> {}]
    /\ log = <<>>
    /\ renderInstManager = [insts |-> {}, visible |-> {}, filterKey |-> 0]
    /\ viewRenderer = {}
    /\ opaquePassRenderer = 0 /\ lastPassRenderer = 0 /\ returned = 0
    /\ opaqueSceneTexture = [gfxTexture |-> 0, width |-> 0]
    /\ fbtex = 0

RenderNext ==
    \/ ZTP_Begin \/ ZTP_Skybox \/ ZTP_Opaque \/ ZTP_Indirect \/ ZTP_Transparent
    \/ SMS_Begin \/ SMS_Skybox \/ SMS_Opaque \/ SMS_Indirect \/ SMS_Transparent
    \/ ZTP0_Begin \/ ZTP0_Skybox \/ ZTP0_Opaque \/ ZTP0_Indirect
    \/ ZTP0_Transparent

(***************************************************************************)
(* The frame, read from the calls logged.                                  *)
(***************************************************************************)
\* The places in the log of the calls op.
Calls(op) == {i \in DOMAIN log : log[i].op = op}
\* The places of the calls op on pass p.
CallsOn(op, p) == {i \in Calls(op) : log[i].pass = p}
\* The places of the draws made with the filter key.
DrawsOf(key) == {i \in Calls("draw") : log[i].key = key}
\* The render passes created so far in the frame.
RenderPasses == {log[i].pass : i \in Calls("createRenderPass")}
\* render() has returned.
FrameDone == pc = "idle" /\ returned # 0
\* All of S come before all of T.
Before(S, T) == \A i \in S, j \in T : i < j
\* The render instances of the frame whose pass is key.
InstsOf(key) == {i \in viewerInput.visible : passMask[i] = key}
\* Pass p has been ended and then submitted.
EndedAndSubmitted(p) ==
    \E e \in CallsOn("endPass", p), u \in CallsOn("submitPass", p) : e < u

\* C1: in every render() of the three renderers the draws come in the order
\* skybox, opaque, indirect, transparent, each once at most; the skybox pass
\* is drawn, ended and submitted before the pass of the opaque draw is
\* created; and when render() returns the skybox, opaque and transparent
\* draws are made and the transparent draw is the last draw.
C1_PassOrder ==
    /\ \A i, j \in Calls("draw") : i < j => log[i].key < log[j].key
    /\ \A i \in Calls("draw") : log[i].key \in
          {ZTPPass.SKYBOX, ZTPPass.OPAQUE, ZTPPass.INDIRECT,
           ZTPPass.TRANSPARENT}
    /\ \A o \in DrawsOf(ZTPPass.OPAQUE) :
          \E d \in DrawsOf(ZTPPass.SKYBOX) :
             LET sky == log[d].pass
             IN  \E e \in CallsOn("endPass", sky),
                    u \in CallsOn("submitPass", sky),
                    c \in CallsOn("createRenderPass", log[o].pass) :
                    d < e /\ e < u /\ u < c /\ c < o
    /\ FrameDone =>
          /\ DrawsOf(ZTPPass.SKYBOX) # {}
          /\ DrawsOf(ZTPPass.OPAQUE) # {}
          /\ DrawsOf(ZTPPass.TRANSPARENT) # {}
          /\ \A i \in Calls("draw") :
                log[i].key # ZTPPass.TRANSPARENT =>
                   Before({i}, DrawsOf(ZTPPass.TRANSPARENT))

\* A frame of each kind is returned with all four draws made.
C1_Witness ==
    /\ FrameDone
    /\ DrawsOf(ZTPPass.INDIRECT) # {}
    /\ InstsOf(ZTPPass.SKYBOX) # {}
    /\ InstsOf(ZTPPass.INDIRECT) # {}

\* C2: in a frame of TwilightPrincessRenderer.render every render instance
\* drawn has as its pass key the filter key the draw is made with, and no
\* render instance is drawn by two draws.
C2_PassSeparation ==
    renderer = "ztp" =>
       \A i \in Calls("draw") :
          /\ \A x \in log[i].insts : passMask[x] = log[i].key
          /\ \A j \in Calls("draw") :
                j # i => log[i].insts \cap log[j].insts = {}

\* A frame is returned in which an indirect and a transparent instance were
\* drawn.
C2_Witness ==
    /\ renderer = "ztp" /\ FrameDone
    /\ \E i \in DrawsOf(ZTPPass.INDIRECT) : log[i].insts # {}
    /\ \E i \in DrawsOf(ZTPPass.TRANSPARENT) : log[i].insts # {}

\* C3: when render() returns: if an INDIRECT render instance is visible, the
\* pass of the opaque draw was ended with a resolve into opaqueSceneTexture
\* and submitted before a further pass was created, and the indirect and
\* transparent draws are on that further pass; if none is visible, no further
\* pass was created, no indirect draw was made and the transparent draw is on
\* the pass of the opaque draw. Either way the pass returned is the one
\* render pass of the frame not ended and submitted.
C3_IndirectProtocol ==
    FrameDone =>
       \E o \in DrawsOf(ZTPPass.OPAQUE) :
          LET opaque == log[o].pass
              later == {p \in RenderPasses :
                          Before(CallsOn("createRenderPass", opaque),
                                 CallsOn("createRenderPass", p))
                          /\ p # opaque}
          IN  /\ InstsOf(ZTPPass.INDIRECT) # {} =>
                    \E ind \in later :
                       /\ later = {ind}
                       /\ \E e \in CallsOn("endPass", opaque),
                             u \in CallsOn("submitPass", opaque),
                             c \in CallsOn("createRenderPass", ind) :
                             /\ o < e /\ e < u /\ u < c
                             /\ log[e].tex = opaqueSceneTexture.gfxTexture
                             /\ log[e].tex # 0
                       /\ \E d \in DrawsOf(ZTPPass.INDIRECT) :
                             /\ log[d].pass = ind
                             /\ log[d].insts = InstsOf(ZTPPass.INDIRECT)
                       /\ \E d \in DrawsOf(ZTPPass.TRANSPARENT) :
                             /\ log[d].pass = ind
                             /\ log[d].insts = InstsOf(ZTPPass.TRANSPARENT)
                       /\ returned = ind
              /\ InstsOf(ZTPPass.INDIRECT) = {} =>
                    /\ later = {}
                    /\ DrawsOf(ZTPPass.INDIRECT) = {}
                    /\ \E d \in DrawsOf(ZTPPass.TRANSPARENT) :
                          /\ log[d].pass = opaque
                          /\ log[d].insts = InstsOf(ZTPPass.TRANSPARENT)
                    /\ returned = opaque
              /\ returned \in RenderPasses
              /\ \A p \in RenderPasses :
                    p # returned <=> EndedAndSubmitted(p)

\* A frame with visible indirect and transparent instances is returned, its
\* three render passes created, the viewport having changed between frames.
C3_Witness ==
    /\ FrameDone
    /\ InstsOf(ZTPPass.INDIRECT) # {}
    /\ InstsOf(ZTPPass.TRANSPARENT) # {}
    /\ Cardinality(RenderPasses) = 3
    /\ opaqueSceneTexture.gfxTexture > 1

\* C14: in every frame of TwilightPrincessRenderer.render, the first and
\* those in which the viewport changes size included, the texture the
\* fbtex_dummy mappings refer to while the indirect pass is drawn is the
\* gfxTexture that opaqueSceneTexture has after the setParameters call of
\* the frame, the texture the opaque pass is resolved into.
C14_IndirectTexture ==
    (renderer = "ztp" /\ DrawsOf(ZTPPass.INDIRECT) # {}) =>
        /\ fbtex = opaqueSceneTexture.gfxTexture
        /\ \A e \in CallsOn("endPass", opaquePassRenderer) :
               log[e].tex = fbtex

(***************************************************************************)
(* unpack and readSceneBin, src/src/j3d/sms_scenes.ts. The scene file is   *)
(* the ArrayBuffer sceneBin; the slices and views of it are those of       *)
(* ArrayBufferSlice above, on the heap <<sceneBin>>. readSceneBin calls    *)
(* itself: callStack holds its activations, the innermost last.            *)
(***************************************************************************)
\* A result with its value, or the error thrown.
Ok(v) == [status |-> "ok", value |-> v]
Err(what) == [status |-> what, value |-> NoValue]

\* DataView.getUint8/getUint16/getUint32/getInt32 (big-endian): a RangeError
\* when the bytes read do not lie in the view.
ViewBytes(h, view, offs, n) ==
    IF offs < 0 \/ offs + n > view.byteLength THEN Err("RangeError")
    ELSE Ok(SubSeq(h[view.buf], view.byteOffset + offs + 1,
                   view.byteOffset + offs + n))
RECURSIVE BigEndian(_)
BigEndian(bytes) ==
    IF bytes = <<>> THEN 0
    ELSE 256 * BigEndian(SubSeq(bytes, 1, Len(bytes) - 1)) + bytes[Len(bytes)]
getUint(h, view, offs, n) ==
    LET b == ViewBytes(h, view, offs, n)
    IN  IF b.status # "ok" THEN b ELSE Ok(BigEndian(b.value))
getUint8(h, view, offs) == getUint(h, view, offs, 1)
getUint16(h, view, offs) == getUint(h, view, offs, 2)
getUint32(h, view, offs) == getUint(h, view, offs, 4)
getInt32(h, view, offs) ==
    LET b == ViewBytes(h, view, offs, 4)
    IN  IF b.status # "ok" THEN b
        ELSE LET low == BigEndian(<<b.value[1] % 128>> \o Tail(b.value))
             \* the top bit counts for -2^31
             IN  Ok(IF b.value[1] >= 128 THEN low - 2147483647 - 1 ELSE low)
\* getFloat32: the number is kept as the four bytes that encode it.
getFloat32(h, view, offs) ==
    LET b == ViewBytes(h, view, offs, 4)
    IN  IF b.status # "ok" THEN b ELSE Ok([float32 |-> b.value])

\* readString(buffer, offs, length, false) of util: the string of the
\* length bytes from offs, read through buffer.createTypedArray(Uint8Array,
\* offs, length). A string is the sequence of its character codes.
readString(h, buffer, offs, length) ==
    LET a == createTypedArray(h, LITTLE_ENDIAN, buffer, 1, offs, <<length>>,
                              LITTLE_ENDIAN)
    IN  IF a.status # "ok" THEN Err(a.status)
        ELSE Ok(SubSeq(a.heap[a.value.buf], a.value.byteOffset + 1,
                       a.value.byteOffset + a.value.byteLength))

\* unpack(buffer, sig): sig is the sequence of the characters of the
\* signature. The loop over sig, from its i-th character on.
RECURSIVE unpackLoop(_, _, _, _, _, _, _, _)
unpackLoop(h, buffer, view, sig, i, offs, result, allowExtra) ==
    IF i > Len(sig)
    THEN IF ~allowExtra /\ buffer.byteLength # offs
         THEN Err("assert")
         ELSE Ok(<<offs>> \o result)
    ELSE LET c == sig[i]
             Field(r, n) ==
                 IF r.status # "ok" THEN r
                 ELSE unpackLoop(h, buffer, view, sig, i + 1, offs + n,
                                 Append(result, r.value), allowExtra)
         IN  CASE c = "B" -> Field(getUint8(h, view, offs), 1)
               [] c = "I" -> Field(getUint32(h, view, offs), 4)
               [] c = "i" -> Field(getInt32(h, view, offs), 4)
               [] c = "f" -> Field(getFloat32(h, view, offs), 4)
               [] c = "s" ->
                    LET size == getUint16(h, view, offs)
                    IN  IF size.status # "ok" THEN size
                        ELSE Field(readString(h, buffer, offs + 2, size.value),
                                   2 + size.value)
               [] c = "." ->
                    unpackLoop(h, buffer, view, sig, i + 1, offs, result, TRUE)
               [] c = " " ->
                    unpackLoop(h, buffer, view, sig, i + 1, offs, result,
                               allowExtra)
               [] OTHER -> Err("assert")

\* unpack without its last assertion.
unpack_NoAssert(h, buffer, sig) ==
    LET view == createDataView(h, buffer, 0, <<>>)
    IN  IF view.status # "ok" THEN Err(view.status)
        ELSE unpackLoop(h, buffer, view.value, sig, 1, 0, <<>>, TRUE)

unpack(h, buffer, sig) ==
    LET view == createDataView(h, buffer, 0, <<>>)
    IN  IF view.status # "ok" THEN Err(view.status)
        ELSE unpackLoop(h, buffer, view.value, sig, 1, 0, <<>>, FALSE)

\* The class names of the switch in readSceneBin, as character codes.
GroupObj == <<71, 114, 111, 117, 112, 79, 98, 106>>
LightAry == <<76, 105, 103, 104, 116, 65, 114, 121>>
Strategy == <<83, 116, 114, 97, 116, 101, 103, 121>>
AmbAry == <<65, 109, 98, 65, 114, 121>>
IdxGroup == <<73, 100, 120, 71, 114, 111, 117, 112>>
MarScene == <<77, 97, 114, 83, 99, 101, 110, 101>>
AmbColor == <<65, 109, 98, 67, 111, 108, 111, 114>>
Light == <<76, 105, 103, 104, 116>>

\* const x = e, and what follows it: e is evaluated once.
Bind(e, Rest(_)) == CHOOSE r \in {Rest(x) : x \in {e}} : TRUE

\* readSceneBin(buffer) up to the end of its switch: the header, and the
\* parameters of the class. The value is the activation as it stands then:
\* numChildren is the count a group read (readChildren has yet to run), and
\* an object that is no group is complete.
readSceneBinHead(h, buffer) ==
    Bind(createDataView(h, buffer, 0, <<>>), LAMBDA view_ :
    IF view_.status # "ok" THEN Err(view_.status) ELSE
    Bind(getUint32(h, view_.value, 0), LAMBDA size :
    IF size.status # "ok" THEN size ELSE
    Bind(createDataView(h, buffer, 0, <<size.value>>), LAMBDA view :
    IF view.status # "ok" THEN Err(view.status) ELSE
    Bind(getUint16(h, view.value, 4), LAMBDA klassHash :
    IF klassHash.status # "ok" THEN klassHash ELSE
    Bind(getUint16(h, view.value, 6), LAMBDA klassSize :
    IF klassSize.status # "ok" THEN klassSize ELSE
    Bind(readString(h, buffer, 8, klassSize.value), LAMBDA klass :
    IF klass.status # "ok" THEN klass ELSE
    Bind(8 + klassSize.value, LAMBDA offs1 :
    Bind(getUint16(h, view.value, offs1), LAMBDA nameHash :
    IF nameHash.status # "ok" THEN nameHash ELSE
    Bind(getUint16(h, view.value, offs1 + 2), LAMBDA nameSize :
    IF nameSize.status # "ok" THEN nameSize ELSE
    Bind(copyToBuffer(h, buffer, <<offs1 + 4>>, <<nameSize.value>>),
          LAMBDA name :
    IF name.status # "ok" THEN Err(name.status) ELSE
    Bind(offs1 + 4 + nameSize.value, LAMBDA offs :
    Bind(slice(h, buffer, offs, <<size.value>>), LAMBDA params :
    IF params.status # "ok" THEN Err(params.status) ELSE
    LET Obj(type, numChildren, paramsSize) ==
            Ok([type |-> type, klass |-> klass.value,
                name |-> name.heap[name.value.buf], size |-> size.value,
                offs |-> offs + paramsSize, numChildren |-> numChildren,
                children |-> <<>>])
        \* const [paramsSize, ...] = unpack(params, sig)
        Unpacked(sig, Then(_)) ==
            Bind(unpack(h, params.value, sig),
                  LAMBDA u : IF u.status # "ok" THEN u ELSE Then(u.value))
    IN  IF klass.value \in {GroupObj, LightAry, Strategy, AmbAry}
        THEN Unpacked(<<"I", ".">>, LAMBDA u : Obj("Group", u[2], u[1]))
        ELSE IF klass.value \in {IdxGroup, MarScene}
        THEN Unpacked(<<"I", "I", ".">>,
                      LAMBDA u : Obj("Group", u[3], u[1]))
        ELSE IF klass.value = AmbColor
        THEN Unpacked(<<"B", "B", "B", "B">>,
                      LAMBDA u : Obj("AmbColor", 0, 0))
        ELSE IF klass.value = Light
        THEN Unpacked(<<"f", "f", "f", "B", "B", "B", "B", "f">>,
                      LAMBDA u : Obj("Light", 0, 0))
        ELSE Obj("Unknown", 0, 0)))))))))))))

\* An activation of readSceneBin: called on buffer and yet to run (pc
\* "call"), or in readChildren (pc "children") with remaining the value of
\* numChildren in the loop, children the array built so far and offs the
\* offset of the next child. numChildren and offs0 keep what the loop
\* started from.
Activation(buffer) ==
    [pc |-> "call", buffer |-> buffer, type |-> "", klass |-> <<>>,
     name |-> <<>>, size |-> 0, offs |-> 0, offs0 |-> 0, numChildren |-> 0,
     remaining |-> 0, children |-> <<>>]
InChildren(a, o) ==
    [a EXCEPT !.pc = "children", !.type = o.type, !.klass = o.klass,
              !.name = o.name, !.size = o.size, !.offs = o.offs,
              !.offs0 = o.offs, !.numChildren = o.numChildren,
              !.remaining = o.numChildren]
\* The object an activation returns.
SceneBinObj(a) ==
    [type |-> a.type, klass |-> a.klass, name |-> a.name, size |-> a.size,
     children |-> a.children]

Top == callStack[Len(callStack)]
Pop == SubSeq(callStack, 1, Len(callStack) - 1)
Running == [status |-> "running", value |-> NoValue]

\* An exception leaves every activation.
Throw(what) ==
    /\ callStack' = <<>>
    /\ sceneBinObj' = Err(what)

\* Without the advance past the child.
Return_NoAdvance(obj) ==
    IF Len(callStack) = 1
    THEN /\ callStack' = <<>>
         /\ sceneBinObj' = Ok(obj)
    ELSE LET caller == callStack[Len(callStack) - 1]
         IN  /\ callStack' =
                   [Pop EXCEPT ![Len(callStack) - 1] =
                       [caller EXCEPT !.children = Append(@, obj)]]
             /\ UNCHANGED sceneBinObj

\* return obj: to the caller of the outermost call, or into readChildren of
\* the activation below: children.push(child); offs += child.size.
Return(obj) ==
    IF Len(callStack) = 1
    THEN /\ callStack' = <<>>
         /\ sceneBinObj' = Ok(obj)
    ELSE LET caller == callStack[Len(callStack) - 1]
         IN  /\ callStack' =
                   [Pop EXCEPT ![Len(callStack) - 1] =
                       [caller EXCEPT !.children = Append(@, obj),
                                      !.offs = @ + obj.size]]
             /\ UNCHANGED sceneBinObj

\* readSceneBin from its first line to the end of its switch: an object that
\* is no group is returned, a group goes on to readChildren.
ReadSceneBin ==
    /\ callStack # <<>> /\ Top.pc = "call"
    /\ LET r == readSceneBinHead(<<sceneBin>>, Top.buffer)
       IN  IF r.status # "ok" THEN Throw(r.status)
           ELSE IF r.value.type = "Group"
           THEN /\ callStack' = [callStack EXCEPT ![Len(callStack)] =
                                    InChildren(Top, r.value)]
                /\ UNCHANGED sceneBinObj
           ELSE Return(SceneBinObj(InChildren(Top, r.value)))
    /\ UNCHANGED <<sceneBin, notScene>>

\* while (numChildren--) readSceneBin(buffer.slice(offs))
ReadChildren ==
    /\ callStack # <<>> /\ Top.pc = "children" /\ Top.remaining # 0
    /\ LET s == slice(<<sceneBin>>, Top.buffer, Top.offs, <<>>)
       IN  IF s.status # "ok" THEN Throw(s.status)
           ELSE /\ callStack' =
                      Append([callStack EXCEPT ![Len(callStack)].remaining =
                                 @ - 1],
                             Activation(s.value))
                /\ UNCHANGED sceneBinObj
    /\ UNCHANGED <<sceneBin, notScene>>

\* The loop is over: return children, and the group is returned.
ReturnGroup ==
    /\ callStack # <<>> /\ Top.pc = "children" /\ Top.remaining = 0
    /\ Return(SceneBinObj(Top))
    /\ UNCHANGED <<sceneBin, notScene>>

\* The scene files read. A file is a run of object records, each with a
\* size field, a class name, a name and parameters; the size fields and the
\* child counts are free, so that files that are not well formed are read
\* as well.
U16(n) == <<n \div 256, n % 256>>
U32(n) == <<0, 0>> \o U16(n)
ObjRecord(size, klass, name, params) ==
    U32(size) \o U16(0) \o U16(Len(klass)) \o klass
       \o U16(0) \o U16(Len(name)) \o name \o params
Cube == <<67, 117, 98, 101>>
ChildCounts == {0, 1, MaxChildren}
\* The records that may stand before the bytes rest: a group, an AmbColor or
\* an object of a class readSceneBin does not know, with a size that is too
\* small, the size of the record alone, or the size up to the end.
RecordsBefore(rest) ==
    LET rec(size, klass, params) == ObjRecord(size, klass, <<110>>, params)
        len(klass, params) == Len(rec(0, klass, params))
        groups == UNION {
            {rec(len(GroupObj, U32(n)), GroupObj, U32(n)),
             rec(len(GroupObj, U32(n)) + Len(rest), GroupObj, U32(n))}
            : n \in ChildCounts}
        color == <<1, 2, 3, 255>>
    IN  groups \cup
        {rec(12, GroupObj, U32(0)),
         rec(len(AmbColor, color), AmbColor, color),
         rec(len(AmbColor, color) + Len(rest), AmbColor, color),
         rec(len(Cube, <<>>), Cube, <<>>)}
RECURSIVE SceneBinsOf(_)
SceneBinsOf(n) ==
    IF n = 0 THEN {<<>>}
    ELSE UNION {{rec \o rest : rec \in RecordsBefore(rest)} :
                   rest \in SceneBinsOf(n - 1)}
SceneBins == UNION {SceneBinsOf(n) : n \in 0..MaxRecords}

\* readSceneBin(sceneBin.buffer)
SceneInit ==
    /\ sceneBin \in SceneBins
    /\ callStack = <<Activation(Slice(1, 0, Len(sceneBin)))>>
    /\ sceneBinObj = Running

SceneNext == ReadSceneBin \/ ReadChildren \/ ReturnGroup

RECURSIVE SumOfSizes(_)
SumOfSizes(children) ==
    IF children = <<>> THEN 0
    ELSE children[1].size + SumOfSizes(Tail(children))

\* In every state of a run of readSceneBin: the buffer of each inner
\* activation is a strictly shorter suffix of the buffer of the activation
\* that called it; in readChildren, the children read, the one being read
\* and the iterations left make numChildren, and offs has advanced by the
\* size fields of the children read; and the run has ended in nothing but an
\* object, a failed assertion or a RangeError.
ReadSceneBinSafe ==
    /\ \A i \in 2..Len(callStack) :
          LET a == callStack[i].buffer
              p == callStack[i - 1].buffer
          IN  /\ a.buf = p.buf
              /\ a.byteOffset + a.byteLength = p.byteOffset + p.byteLength
              /\ a.byteLength < p.byteLength
    /\ \A i \in DOMAIN callStack :
          LET a == callStack[i]
          IN  a.pc = "children" =>
                 /\ Len(a.children) + a.remaining
                       + (IF i < Len(callStack) THEN 1 ELSE 0) = a.numChildren
                 /\ a.remaining >= 0
                 /\ a.offs = a.offs0 + SumOfSizes(a.children)
    /\ sceneBinObj.status \in {"running", "ok", "assert", "RangeError"}
    /\ sceneBinObj.status = "running" <=> callStack # <<>>

\* What is left of the buffer of each activation after its offs, outermost
\* first: the measure of what a run of readSceneBin has yet to do.
Measure ==
    [i \in DOMAIN callStack |->
        callStack[i].buffer.byteLength - callStack[i].offs]
\* m comes before n: at the first place they differ m is smaller, or m
\* goes on where n ends. On measures (no longer than the buffer, of numbers
\* from 0 to its length) no chain goes down for ever.
RECURSIVE ComesBefore(_, _)
ComesBefore(m, n) ==
    IF n = <<>> THEN m # <<>>
    ELSE IF m = <<>> THEN FALSE
    ELSE IF m[1] # n[1] THEN m[1] < n[1]
    ELSE ComesBefore(Tail(m), Tail(n))
MeasureBounded ==
    /\ Len(callStack) <= Len(sceneBin) + 1
    /\ \A i \in DOMAIN callStack :
          Measure[i] >= 0 /\ Measure[i] <= Len(sceneBin)

\* C11: readSceneBin terminates on every scene file, in an object tree, a
\* failed assertion or a RangeError: every step of it either ends the run
\* or takes the measure down, and the measure is bounded; every call for a
\* child is on a strictly shorter suffix of the buffer, and the loop over
\* the children runs numChildren times, advancing by the size field of each
\* child.
C11_Terminates ==
    /\ [](ReadSceneBinSafe /\ MeasureBounded)
    /\ [][callStack' = <<>> \/ ComesBefore(Measure', Measure)]_sceneVars

\* A file is read to the end: a group, in it a group, in it an object.
C11_Witness ==
    /\ sceneBinObj.status = "ok"
    /\ sceneBinObj.value.type = "Group"
    /\ Len(sceneBinObj.value.children) = 1
    /\ sceneBinObj.value.children[1].type = "Group"
    /\ Len(sceneBinObj.value.children[1].children) = 1

(***************************************************************************)
(* unpack called on its own, src/src/j3d/sms_scenes.ts: unpackInput is the *)
(* call, unpackOutput what it returned or threw. The buffer is the slice   *)
(* of the bytes unpackInput.bytes behind the first byte of its             *)
(* ArrayBuffer, as the params of readSceneBin are a slice inside the scene *)
(* file.                                                                   *)
(***************************************************************************)
\* The characters a signature is drawn from: those of the switch of unpack,
\* and one it does not know.
SigChars == {"B", "I", "i", "f", "s", ".", " "}
OtherChar == "x"
\* The values of a byte of the buffer: 200 has its top bit set. A buffer read
\* with 'I' holds small bytes, to keep getUint32 below 2^31.
ByteValues == {0, 1, 200}
Sigs == UNION {[1..n -> SigChars \cup {OtherChar}] : n \in 0..MaxSigLen}
UnpackInputs ==
    {[bytes |-> b, sig |-> sig] :
        b \in UNION {[1..n -> ByteValues] : n \in 0..MaxBytes}, sig \in Sigs}
\* The byte of the ArrayBuffer before the buffer.
Pad == <<9>>
UnpackHeap == <<Pad \o unpackInput.bytes>>
UnpackBuffer == Slice(1, Len(Pad), Len(unpackInput.bytes))

UnpackInit ==
    /\ unpackInput \in
          {in \in UnpackInputs :
              (\E i \in DOMAIN in.sig : in.sig[i] = "I")
                 => \A j \in DOMAIN in.bytes : in.bytes[j] < 128}
    /\ unpackOutput = Running

\* const [...] = unpack(buffer, sig)
Unpack ==
    /\ unpackOutput = Running
    /\ unpackOutput' = unpack(UnpackHeap, UnpackBuffer,
                              unpackInput.sig)
    /\ UNCHANGED <<unpackInput, notUnpack>>

UnpackNext == Unpack

\* What the signature asks for, read off the bytes of the buffer from their
\* head: the fields in order and the number of bytes they take; fits is
\* false when the bytes end before the fields do, known is false from the
\* first character that is no character of a signature.
IsField(c) == c \in {"B", "I", "i", "f", "s"}
FieldWidth(c, bytes) ==
    CASE c = "B" -> 1
      [] c \in {"I", "i", "f"} -> 4
      [] c = "s" -> IF Len(bytes) < 2 THEN 2
                    ELSE 2 + bytes[1] * 256 + bytes[2]
      [] OTHER -> 0
FieldValue(c, bytes) ==
    CASE c = "B" -> bytes[1]
      [] c = "I" ->
            bytes[1] * 16777216 + bytes[2] * 65536 + bytes[3] * 256 + bytes[4]
      [] c = "i" ->
            (IF bytes[1] >= 128 THEN bytes[1] - 256 ELSE bytes[1]) * 16777216
               + bytes[2] * 65536 + bytes[3] * 256 + bytes[4]
      [] c = "f" -> [float32 |-> SubSeq(bytes, 1, 4)]
      [] c = "s" -> SubSeq(bytes, 3, 2 + bytes[1] * 256 + bytes[2])
RECURSIVE Fields(_, _)
Fields(sig, bytes) ==
    IF sig = <<>> THEN [known |-> TRUE, fits |-> TRUE, used |-> 0,
                        fields |-> <<>>]
    ELSE LET c == Head(sig)
             n == FieldWidth(c, bytes)
         IN  IF c \notin SigChars
             THEN [known |-> FALSE, fits |-> TRUE, used |-> 0,
                   fields |-> <<>>]
             ELSE IF n > Len(bytes)
             THEN [known |-> TRUE, fits |-> FALSE, used |-> 0,
                   fields |-> <<>>]
             ELSE LET rest == Fields(Tail(sig),
                                     SubSeq(bytes, n + 1, Len(bytes)))
                  IN  [rest EXCEPT
                         !.used = @ + n,
                         !.fields = IF IsField(c)
                                    THEN <<FieldValue(c, bytes)>> \o @
                                    ELSE @]
UnpackBytes == unpackInput.bytes
AllowsExtra == \E i \in DOMAIN unpackInput.sig : unpackInput.sig[i] = "."

endsWith(name, ext) == Len(name) >= 2 /\ name[Len(name)] = ext
IsBmdFile(f) == endsWith(f.name, "bmd") \/ endsWith(f.name, "bdl")
\* bmdFile.name.split('.')[0]
basenameOf(f) == f.name[1]
\* bmdModelUsesTexture(model, textureName)
bmdModelUsesTexture(f, textureName) == textureName \in f.samplers

\* The pass mask the body of the forEach gives the model of bmdFile.
PassMaskOf(bmdFile) ==
    LET basename == basenameOf(bmdFile)
    IN  IF basename = "model" THEN ZTPPass.OPAQUE
        ELSE IF basename = "model1"
        THEN IF bmdModelUsesTexture(bmdFile, "fbtex_dummy")
             THEN ZTPPass.INDIRECT ELSE ZTPPass.OPAQUE
        ELSE IF basename = "model2" THEN ZTPPass.TRANSPARENT
        ELSE IF basename = "model3" THEN ZTPPass.TRANSPARENT
        ELSE IF basename = "model4" \/ basename = "model5"
        THEN ZTPPass.TRANSPARENT
        ELSE 0

\* The files of a room archive: the models of the six names the code tests
\* and of two other names, model1 with and without the sampler fbtex_dummy,
\* and a file that is no model.
File(name, samplers) == [name |-> name, samplers |-> samplers]
Basenames ==
    {"model", "model1", "model2", "model3", "model4", "model5", "model6",
     "door"}
BmdFiles ==
    {File(<<b, "bmd">>, {"tex"}) : b \in Basenames}
       \cup {File(<<"model1", "bmd">>, {"tex", "fbtex_dummy"}),
             File(<<"model", "bdl">>, {"fbtex_dummy"})}
OtherFiles == {File(<<"model", "btk">>, {})}
\* The archives with one model for each model instance of the renderer, and
\* the other files before them.
Rarcs ==
    {other \o bmds :
        other \in {<<>>} \cup {<<f>> : f \in OtherFiles},
        bmds \in [Instances -> BmdFiles]}

RoomInit ==
    /\ rarc \in Rarcs
    /\ modelInstances = <<>>

\* What createRoomScenes leaves alone.
RoomOnly ==
    UNCHANGED <<rarc, sliceVars, hashVars, sceneVars, unpackVars, actorsVars,
                renderer, pc, viewerInput, log,
                renderInstManager, viewRenderer, opaquePassRenderer,
                lastPassRenderer, returned, opaqueSceneTexture, fbtex>>

\* createRoomScenes(device, renderer, rarc, rarcBasename), once.
CreateRoomScenes ==
    /\ modelInstances = <<>>
    /\ LET bmdFiles == SelectSeq(rarc, IsBmdFile)
       IN  /\ modelInstances' =
                 [i \in DOMAIN bmdFiles |-> basenameOf(bmdFiles[i])]
           /\ passMask' =
                 [i \in Instances |->
                     IF i \in DOMAIN bmdFiles THEN PassMaskOf(bmdFiles[i])
                     ELSE 0]
    /\ RoomOnly

\* The room is created, then the renderer draws its frames.
RoomNext ==
    \/ CreateRoomScenes
    \/ (modelInstances # <<>> /\ ZTP_Begin)
    \/ ZTP_Skybox \/ ZTP_Opaque \/ ZTP_Indirect \/ ZTP_Transparent

\* The model instances drawn in the frame: those of the draw calls logged.
Drawn == UNION {log[k].insts : k \in Calls("draw")}

\* C13: every model instance createRoomScenes adds has for passMask one of
\* the four pass keys, whatever the basename of its file, and so every room
\* model that is visible in a frame is drawn in a pass of that frame.
C13_OnePassEach ==
    modelInstances # <<>> =>
        \A i \in DOMAIN modelInstances :
            /\ passMask[i] \in {ZTPPass[k] : k \in DOMAIN ZTPPass}
            /\ (FrameDone /\ i \in viewerInput.visible) => i \in Drawn

(***************************************************************************)
(* BMDObjectRenderer, src/src/j3d/ztp_actors.ts and sms_actors.ts. The     *)
(* objects are numbered in the order of their construction; of object o,   *)
(* objVisible[o] is this.visible, parentJointMatrix[o] the joint matrix it *)
(* hangs on (0 is null, else the object the joint belongs to),             *)
(* childObjects[o] its list of children and miVisible[o] the visible flag  *)
(* of its modelInstance. actorClass says which of the two files the        *)
(* objects are instances of, prepared is the last call of prepareToRender. *)
(* A screen area is counted in units of 0.0001.                            *)
(***************************************************************************)
Objects == 1..NumObjects
\* if (screenProjection.getScreenArea() <= 0.0002)
CullArea == 2
\* The screen areas of an object in a frame: at the threshold, and above.
Areas == {CullArea, CullArea + 1}
NotPrepared == [root |-> 0, visible |-> FALSE, area |-> 0]

RECURSIVE prepareToRender(_, _, _, _), prepareChildren(_, _, _, _),
          sms_prepareToRender(_, _, _, _), sms_prepareChildren(_, _, _, _)

\* A plausible slip: the screen area cull made on the child meshes as well.
prepareToRender_CullAll(mi, this, visible, area) ==
    LET v == visible /\ objVisible[this]
        mi1 == [mi EXCEPT ![this] = v /\ ~(area[this] <= CullArea)]
    IN  prepareChildren(mi1, this, 1, area)

\* prepareToRender(device, renderInstManager, viewerInput, visible) of
\* ztp_actors.ts: the visible flags of the model instances after the call,
\* mi being the flags before it and area[o] the screen area of object o
\* under the camera of viewerInput.
prepareToRender(mi, this, visible, area) ==
    LET v == visible /\ objVisible[this]
        culled == /\ v
                  /\ parentJointMatrix[this] = 0
                  /\ area[this] <= CullArea
        mi1 == [mi EXCEPT ![this] = IF culled THEN FALSE ELSE v]
    IN  prepareChildren(mi1, this, 1, area)
\* for (let i = 0; i < this.childObjects.length; i++)
prepareChildren(mi, this, i, area) ==
    IF i > Len(childObjects[this]) THEN mi
    ELSE LET child == childObjects[this][i]
             mi1 == prepareToRender(mi, child, mi[this], area)
         IN  prepareChildren(mi1, this, i + 1, area)

\* prepareToRender(renderHelper, viewerInput, visible) of sms_actors.ts.
sms_prepareToRender(mi, this, visible, area) ==
    LET v == visible /\ objVisible[this]
        culled == /\ v
                  /\ parentJointMatrix[this] = 0
                  /\ area[this] <= CullArea
        mi1 == [mi EXCEPT ![this] = IF culled THEN FALSE ELSE v]
    IN  sms_prepareChildren(mi1, this, 1, area)
sms_prepareChildren(mi, this, i, area) ==
    IF i > Len(childObjects[this]) THEN mi
    ELSE LET child == childObjects[this][i]
             mi1 == sms_prepareToRender(mi, child, mi[this], area)
         IN  sms_prepareChildren(mi1, this, i + 1, area)

\* The objects below o in its tree.
RECURSIVE Below(_)
Below(o) ==
    LET kids == {childObjects[o][i] : i \in DOMAIN childObjects[o]}
    IN  kids \cup UNION {Below(k) : k \in kids}

\* The screen areas of the objects in a frame: those of the objects outside
\* the tree of root, which the call does not read, are left large.
AreasUnder(root) ==
    {area \in [Objects -> Areas] :
        \A o \in Objects \ ({root} \cup Below(root)) :
            area[o] = CullArea + 1}

ActorsInit ==
    /\ actorClass \in {"ztp", "sms"}
    /\ objVisible = [o \in Objects |-> TRUE]
    /\ parentJointMatrix = [o \in Objects |-> 0]
    /\ childObjects = [o \in Objects |-> <<>>]
    /\ miVisible = [o \in Objects |-> TRUE]
    /\ prepared = NotPrepared

\* c.setParentJoint(o, jointName), in the construction of a scene: o was
\* made before c, and the objects are hung in the order they were made in,
\* each once at most and before the first frame.
SetParentJoint ==
    /\ prepared = NotPrepared
    /\ \E c, o \in Objects :
          /\ o < c
          /\ \A d \in Objects : d >= c => parentJointMatrix[d] = 0
          /\ parentJointMatrix' = [parentJointMatrix EXCEPT ![c] = o]
          /\ childObjects' = [childObjects EXCEPT ![o] = Append(@, c)]
    /\ UNCHANGED <<actorClass, objVisible, miVisible, prepared, notActors>>

\* o.visible = v, on the public field.
SetVisible ==
    /\ \E o \in Objects, v \in BOOLEAN :
          /\ objVisible[o] # v
          /\ objVisible' = [objVisible EXCEPT ![o] = v]
    /\ prepared' = NotPrepared
    /\ UNCHANGED <<actorClass, parentJointMatrix, childObjects, miVisible,
                   notActors>>

\* objectRenderers[i].prepareToRender(..., visible) on a root object, in a
\* frame of the Twilight Princess renderer.
ZTP_PrepareToRender ==
    /\ actorClass = "ztp"
    /\ \E root \in Objects, visible \in BOOLEAN :
       \E area \in AreasUnder(root) :
          /\ parentJointMatrix[root] = 0
          /\ miVisible' = prepareToRender(miVisible, root, visible, area)
          /\ prepared' = [root |-> root, visible |-> visible,
                          area |-> area[root]]
    /\ UNCHANGED <<actorClass, objVisible, parentJointMatrix, childObjects,
                   notActors>>

\* The same in a frame of the Sunshine renderer.
SMS_PrepareToRender ==
    /\ actorClass = "sms"
    /\ \E root \in Objects, visible \in BOOLEAN :
       \E area \in AreasUnder(root) :
          /\ parentJointMatrix[root] = 0
          /\ miVisible' = sms_prepareToRender(miVisible, root, visible, area)
          /\ prepared' = [root |-> root, visible |-> visible,
                          area |-> area[root]]
    /\ UNCHANGED <<actorClass, objVisible, parentJointMatrix, childObjects,
                   notActors>>

ActorsNext ==
    SetParentJoint \/ SetVisible \/ ZTP_PrepareToRender \/ SMS_PrepareToRender

\* C15: after prepareToRender(..., visible) on a root object with any tree
\* of children, the model instance of the object is visible only if visible
\* and this.visible are true; the model instance of a child is visible only
\* if that of its parent is; and an object on a parent joint is never hidden
\* by the screen area cull: its model instance is visible exactly when that
\* of its parent and its own this.visible are, whatever its screen area,
\* while the root is hidden when its area is 0.0002 or less.
C15_VisibleDownTheTree ==
    prepared # NotPrepared =>
        LET root == prepared.root
        IN  /\ miVisible[root] => (prepared.visible /\ objVisible[root])
            /\ miVisible[root] =
                  (/\ prepared.visible /\ objVisible[root]
                   /\ ~(prepared.area <= CullArea))
            /\ \A c \in Below(root) :
                  /\ miVisible[c] => miVisible[parentJointMatrix[c]]
                  /\ miVisible[c] =
                        (miVisible[parentJointMatrix[c]] /\ objVisible[c])
\* prepareToRender has left a grandchild visible under a visible root, all
\* three in one chain.
C15_Witness ==
    /\ prepared # NotPrepared
    /\ \E c \in Below(prepared.root) :
          /\ parentJointMatrix[c] \in Below(prepared.root)
          /\ miVisible[c]

(***************************************************************************)
(* The specifications.                                                     *)
(***************************************************************************)
\* The values of a renderer at rest.
NoViewerInput == [viewportWidth |-> 0, visible |-> {}]
NoRenderInsts == [insts |-> {}, visible |-> {}, filterKey |-> 0]
NoTexture == [gfxTexture |-> 0, width |-> 0]

InitSlice ==
    /\ hashInput = [kind |-> "numbers", key |-> <<>>]
    /\ hashOutput = NoHash
    /\ renderer = "ztp"
    /\ passMask = [i \in Instances |-> 0]
    /\ pc = "idle"
    /\ viewerInput = NoViewerInput
    /\ log = <<>>
    /\ renderInstManager = NoRenderInsts
    /\ viewRenderer = {}
    /\ opaquePassRenderer = 0 /\ lastPassRenderer = 0 /\ returned = 0
    /\ opaqueSceneTexture = NoTexture
    /\ fbtex = 0
    /\ sceneBin = <<>>
    /\ callStack = <<>>
    /\ sceneBinObj = Running
    /\ unpackInput = [bytes |-> <<>>, sig |-> <<>>]
    /\ unpackOutput = Running
    /\ rarc = <<>>
    /\ modelInstances = <<>>
    /\ actorClass = "ztp"
    /\ objVisible = [o \in Objects |-> TRUE]
    /\ parentJointMatrix = [o \in Objects |-> 0]
    /\ childObjects = [o \in Objects |-> <<>>]
    /\ miVisible = [o \in Objects |-> TRUE]
    /\ prepared = NotPrepared
    /\ SliceInit

InitHash ==
    /\ heap = <<FreshBuffer(BufLen)>>
    /\ cur = Slice(1, 0, BufLen)
    /\ last = NoCall
    /\ systemEndianness = LITTLE_ENDIAN
    /\ renderer = "ztp"
    /\ passMask = [i \in Instances |-> 0]
    /\ pc = "idle"
    /\ viewerInput = NoViewerInput
    /\ log = <<>>
    /\ renderInstManager = NoRenderInsts
    /\ viewRenderer = {}
    /\ opaquePassRenderer = 0 /\ lastPassRenderer = 0 /\ returned = 0
    /\ opaqueSceneTexture = NoTexture
    /\ fbtex = 0
    /\ sceneBin = <<>>
    /\ callStack = <<>>
    /\ sceneBinObj = Running
    /\ unpackInput = [bytes |-> <<>>, sig |-> <<>>]
    /\ unpackOutput = Running
    /\ rarc = <<>>
    /\ modelInstances = <<>>
    /\ actorClass = "ztp"
    /\ objVisible = [o \in Objects |-> TRUE]
    /\ parentJointMatrix = [o \in Objects |-> 0]
    /\ childObjects = [o \in Objects |-> <<>>]
    /\ miVisible = [o \in Objects |-> TRUE]
    /\ prepared = NotPrepared
    /\ HashInit

InitRender ==
    /\ heap = <<FreshBuffer(BufLen)>>
    /\ cur = Slice(1, 0, BufLen)
    /\ last = NoCall
    /\ systemEndianness = LITTLE_ENDIAN
    /\ hashInput = [kind |-> "numbers", key |-> <<>>]
    /\ hashOutput = NoHash
    /\ sceneBin = <<>>
    /\ callStack = <<>>
    /\ sceneBinObj = Running
    /\ unpackInput = [bytes |-> <<>>, sig |-> <<>>]
    /\ unpackOutput = Running
    /\ rarc = <<>>
    /\ modelInstances = <<>>
    /\ actorClass = "ztp"
    /\ objVisible = [o \in Objects |-> TRUE]
    /\ parentJointMatrix = [o \in Objects |-> 0]
    /\ childObjects = [o \in Objects |-> <<>>]
    /\ miVisible = [o \in Objects |-> TRUE]
    /\ prepared = NotPrepared
    /\ RenderInit

InitScene ==
    /\ heap = <<FreshBuffer(BufLen)>>
    /\ cur = Slice(1, 0, BufLen)
    /\ last = NoCall
    /\ systemEndianness = LITTLE_ENDIAN
    /\ hashInput = [kind |-> "numbers", key |-> <<>>]
    /\ hashOutput = NoHash
    /\ renderer = "ztp"
    /\ passMask = [i \in Instances |-> 0]
    /\ pc = "idle"
    /\ viewerInput = NoViewerInput
    /\ log = <<>>
    /\ renderInstManager = NoRenderInsts
    /\ viewRenderer = {}
    /\ opaquePassRenderer = 0 /\ lastPassRenderer = 0 /\ returned = 0
    /\ opaqueSceneTexture = NoTexture
    /\ fbtex = 0
    /\ unpackInput = [bytes |-> <<>>, sig |-> <<>>]
    /\ unpackOutput = Running
    /\ rarc = <<>>
    /\ modelInstances = <<>>
    /\ actorClass = "ztp"
    /\ objVisible = [o \in Objects |-> TRUE]
    /\ parentJointMatrix = [o \in Objects |-> 0]
    /\ childObjects = [o \in Objects |-> <<>>]
    /\ miVisible = [o \in Objects |-> TRUE]
    /\ prepared = NotPrepared
    /\ SceneInit

InitUnpack ==
    /\ heap = <<FreshBuffer(BufLen)>>
    /\ cur = Slice(1, 0, BufLen)
    /\ last = NoCall
    /\ systemEndianness = LITTLE_ENDIAN
    /\ hashInput = [kind |-> "numbers", key |-> <<>>]
    /\ hashOutput = NoHash
    /\ renderer = "ztp"
    /\ passMask = [i \in Instances |-> 0]
    /\ pc = "idle"
    /\ viewerInput = NoViewerInput
    /\ log = <<>>
    /\ renderInstManager = NoRenderInsts
    /\ viewRenderer = {}
    /\ opaquePassRenderer = 0 /\ lastPassRenderer = 0 /\ returned = 0
    /\ opaqueSceneTexture = NoTexture
    /\ fbtex = 0
    /\ sceneBin = <<>>
    /\ callStack = <<>>
    /\ sceneBinObj = Running
    /\ rarc = <<>>
    /\ modelInstances = <<>>
    /\ actorClass = "ztp"
    /\ objVisible = [o \in Objects |-> TRUE]
    /\ parentJointMatrix = [o \in Objects |-> 0]
    /\ childObjects = [o \in Objects |-> <<>>]
    /\ miVisible = [o \in Objects |-> TRUE]
    /\ prepared = NotPrepared
    /\ UnpackInit

InitRoom ==
    /\ heap = <<FreshBuffer(BufLen)>>
    /\ cur = Slice(1, 0, BufLen)
    /\ last = NoCall
    /\ systemEndianness = LITTLE_ENDIAN
    /\ hashInput = [kind |-> "numbers", key |-> <<>>]
    /\ hashOutput = NoHash
    /\ sceneBin = <<>>
    /\ callStack = <<>>
    /\ sceneBinObj = Running
    /\ unpackInput = [bytes |-> <<>>, sig |-> <<>>]
    /\ unpackOutput = Running
    /\ actorClass = "ztp"
    /\ objVisible = [o \in Objects |-> TRUE]
    /\ parentJointMatrix = [o \in Objects |-> 0]
    /\ childObjects = [o \in Objects |-> <<>>]
    /\ miVisible = [o \in Objects |-> TRUE]
    /\ prepared = NotPrepared
    /\ renderer = "ztp"
    /\ passMask = [i \in Instances |-> 0]
    /\ pc = "idle"
    /\ viewerInput = NoViewerInput
    /\ log = <<>>
    /\ renderInstManager = NoRenderInsts
    /\ viewRenderer = {}
    /\ opaquePassRenderer = 0 /\ lastPassRenderer = 0 /\ returned = 0
    /\ opaqueSceneTexture = NoTexture
    /\ fbtex = 0
    /\ RoomInit

InitActors ==
    /\ heap = <<FreshBuffer(BufLen)>>
    /\ cur = Slice(1, 0, BufLen)
    /\ last = NoCall
    /\ systemEndianness = LITTLE_ENDIAN
    /\ hashInput = [kind |-> "numbers", key |-> <<>>]
    /\ hashOutput = NoHash
    /\ renderer = "ztp"
    /\ passMask = [i \in Instances |-> 0]
    /\ pc = "idle"
    /\ viewerInput = NoViewerInput
    /\ log = <<>>
    /\ renderInstManager = NoRenderInsts
    /\ viewRenderer = {}
    /\ opaquePassRenderer = 0 /\ lastPassRenderer = 0 /\ returned = 0
    /\ opaqueSceneTexture = NoTexture
    /\ fbtex = 0
    /\ sceneBin = <<>>
    /\ callStack = <<>>
    /\ sceneBinObj = Running
    /\ unpackInput = [bytes |-> <<>>, sig |-> <<>>]
    /\ unpackOutput = Running
    /\ rarc = <<>>
    /\ modelInstances = <<>>
    /\ ActorsInit

SpecSlice == InitSlice /\ [][SliceNext]_vars

SpecHash == InitHash /\ [][HashNext]_vars

SpecRender == InitRender /\ [][RenderNext]_vars

SpecScene == InitScene /\ [][SceneNext]_vars

SpecUnpack == InitUnpack /\ [][UnpackNext]_vars

SpecRoom == InitRoom /\ [][RoomNext]_vars

SpecActors == InitActors /\ [][ActorsNext]_vars
====
